---- MODULE Spec2Model ----
(***************************************************************************)
(* Model of pkg/frontend/nvme_namespace.go: the Nvme namespace handlers of *)
(* the front-end server (Create, Delete, Update, List, Get, Stats).        *)
(*                                                                         *)
(* The server state is the three maps of the Server object: Namespaces     *)
(* (resource registry), Subsystems (subsystem directory) and Pagination    *)
(* (cursor store).  The engine behind s.rpc.Call is an external process.   *)
(*                                                                         *)
(* Each request is served in a goroutine of its own and the handlers take  *)
(* no lock.  A handler runs from its entry to its blocking s.rpc.Call (or  *)
(* to an early return) in one step, waits there while other handlers run,  *)
(* and runs from the engine's reply to its return in another step.  Two    *)
(* handlers that access one map at the same time, one of them writing, are *)
(* a data race: the accesses land in some order, or the Go runtime aborts  *)
(* the process (fatal error: concurrent map writes / concurrent map read   *)
(* and map write).                                                         *)
(*                                                                         *)
(* Four specifications share the handler definitions:                      *)
(*   Spec      the registry handlers Create, Delete, Update, Get, Stats;   *)
(*   SpecList  ListNvmeNamespaces and its cursors;                         *)
(*   SpecAll   all six handlers on one caller-named namespace;             *)
(*   SpecConc  Create and Delete with the engine's set of attached devices *)
(*             and a fixed subsystem directory.                            *)
(***************************************************************************)
EXTENDS Integers, Sequences, FiniteSets, Bags, TLC

VARIABLES
    Namespaces,  \* s.Namespaces: resource name -> stored NvmeNamespace
    Subsystems,  \* s.Subsystems: subsystem id -> Nqn of the subsystem
    Pagination,  \* s.Pagination: page token -> offset
    generated,   \* number of system-generated resource ids handed out
    last,        \* the request that returned last, with its response and engine calls
    inflight,    \* the bag of frames of handlers suspended in s.rpc.Call
    attached,    \* the engine's attached devices, <<subnqn, nsid>>
    aborted      \* the runtime has aborted the process on a concurrent map access

vars == <<Namespaces, Subsystems, Pagination, generated, last, inflight, attached, aborted>>
(***************************************************************************)
(* Bounds of the model.                                                    *)
(***************************************************************************)
MaxGenerated == 1   \* system-generated ids (resourceid.NewSystemGenerated)
MaxTokens == 2      \* page tokens minted (uuid.New)
NumHandlers == 2    \* handlers that can be in flight at once

(***************************************************************************)
(* Values.                                                                 *)
(***************************************************************************)
SubsysIds == {"subsystems/nqn-1", "subsystems/nqn-2"}

\* The subsystem of the requests that name one subsystem only.
OneSubsys == "subsystems/nqn-1"

NqnOf(id) == IF id = "subsystems/nqn-1" THEN "nqn.2022-09.io.spdk:opi1"
             ELSE "nqn.2022-09.io.spdk:opi2"

\* NvmeNamespaceSpec values sent by clients (subsystem, volume, host nsid).
NsSpecs ==
    { [subsystemId |-> "subsystems/nqn-1", volumeId |-> "volumes/v1", hostNsid |-> 1],
      [subsystemId |-> "subsystems/nqn-2", volumeId |-> "v1", hostNsid |-> 2] }

\* A spec whose SubsystemId is nil or empty.
NoSubsystemSpec == [subsystemId |-> "", volumeId |-> "volumes/v1", hostNsid |-> 1]

CallerIds == {"opi-ns1"}
MalformedId == "Opi_NS"
GeneratedId(n) == IF n = 1 THEN "b2a4c6e8-0001" ELSE IF n = 2 THEN "b2a4c6e8-0002"
                  ELSE "b2a4c6e8-0003"

\* A nil *pb.NvmeNamespace, as the handlers return it beside an error.
NoStatus == [pciState |-> 0, pciOperState |-> 0]
NoNamespace ==
    [name |-> "", spec |-> [subsystemId |-> "", volumeId |-> "", hostNsid |-> 0],
     status |-> NoStatus, nil |-> TRUE]

\* Engine replies to attach and detach: the bool result, or a failed call.
BoolReplies == {"true", "false", "error"}

\* A Go int (64 bits) the engine reports, written hi * 2^32 + lo with lo in
\* the int32 range: int32(n) keeps lo, int(v) of an int32 v has hi = 0.
ToInt32(n) == n.lo
FromInt32(v) == [hi |-> 0, lo |-> v]

\* Nsid values the engine reports in a list reply: two that fit an int32 and
\* 2^32 + 1, which does not.
EngineNsids == { FromInt32(1), FromInt32(2), [hi |-> 1, lo |-> 1] }

Range(q) == { q[i] : i \in 1..Len(q) }

\* Sequences of at most n distinct elements of S.
RECURSIVE SeqsUpTo(_, _)
SeqsUpTo(S, n) ==
    IF n = 0 THEN { <<>> }
    ELSE LET P == SeqsUpTo(S, n - 1)
         IN  P \cup { Append(p, x) : p \in P, x \in S }

DistinctSeqs(S, n) == { q \in SeqsUpTo(S, n) : Cardinality(Range(q)) = Len(q) }

\* Replies to controller_nvme_namespace_list: the call fails, or it returns
\* namespaces of the subsystem, any of them in any order.
ListReplies ==
    { [err |-> TRUE, namespaces |-> <<>>] }
    \cup { [err |-> FALSE, namespaces |-> q] :
             q \in DistinctSeqs(EngineNsids, Cardinality(EngineNsids)) }

\* Replies to controller_nvme_get_iostat: controllers, each with its bdevs.
Bdev(n, r, w) == [bdevName |-> n, readIos |-> r, writeIos |-> w]
IostatReplies ==
    { [err |-> TRUE, controllers |-> <<>>],
      [err |-> FALSE, controllers |-> <<>>],
      [err |-> FALSE, controllers |-> << <<Bdev("v1", FromInt32(10), FromInt32(3))>> >>],
      [err |-> FALSE, controllers |->
          << <<Bdev("nvme0n1", FromInt32(1), FromInt32(1))>>,
             <<Bdev("v1", FromInt32(10), FromInt32(3)),
               Bdev("volumes/v1", [hi |-> 1, lo |-> 7], FromInt32(2))>> >>] }

NoStats == [readOpsCount |-> 0, writeOpsCount |-> 0, nil |-> TRUE]

(***************************************************************************)
(* Helpers of the imported packages, as the handlers use them.             *)
(***************************************************************************)
\* server.ResourceIDToVolumeName
ResourceIDToVolumeName(resourceID) == "//storage.opiproject.org/volumes/" \o resourceID

\* resourceid.ValidateUserSettable: 4..63 characters of [a-z0-9-].
ValidateUserSettable(id) == Len(id) >= 4 /\ Len(id) <= 63 /\ id # MalformedId

\* resourcename.Validate: the names the model sends are the registry keys,
\* the empty name (caught as a missing required field) and one malformed name.
MalformedName == "volumes/{opi}"
ResourcenameValidate(name) == name # "" /\ name # MalformedName

\* Variant: the store is lost.
RegistryPutMissingName(reg, name, ns) == [n \in DOMAIN reg |-> reg[n]]

\* s.Namespaces[name] = ns
RegistryPut(reg, name, ns) ==
    [n \in (DOMAIN reg) \cup {name} |-> IF n = name THEN ns ELSE reg[n]]

\* Variant: the entry is not removed.
RegistryDeleteKeepsEntry(reg, name) == reg

\* delete(s.Namespaces, name)
RegistryDelete(reg, name) == [n \in (DOMAIN reg) \ {name} |-> reg[n]]

\* &pb.NvmeNamespaceStatus{PciState: 2, PciOperState: 1}
AttachedStatus == [pciState |-> 2, pciOperState |-> 1]

(***************************************************************************)
(* The record of the request handled last.                                 *)
(***************************************************************************)
NoCall ==
    [op |-> "none", req |-> [none |-> TRUE], name |-> "",
     code |-> "", ns |-> NoNamespace, cmds |-> <<>>, reply |-> <<>>,
     offset |-> 0, size |-> 0, entries |-> <<>>, token |-> "", stats |-> NoStats,
     again |-> FALSE, entry |-> NoNamespace]

(***************************************************************************)
(* Handlers in flight.  A frame is the state of a handler suspended in     *)
(* s.rpc.Call: its request, the locals it set before the call and the      *)
(* command it sent.  reply is the engine's answer to an attach or detach   *)
(* once the engine has executed it ("" before).                            *)
(***************************************************************************)
Frame(op, in, name, entry, cmd, offset, size, again) ==
    [op |-> op, in |-> in, name |-> name, entry |-> entry, cmd |-> cmd, reply |-> "",
     offset |-> offset, size |-> size, again |-> again]

\* No suspended handler is any longer the direct successor of the request
\* that returned last.
NotAgain(f) == [f EXCEPT !.again = FALSE]
ClearAgain(frames) == BagOfAll(NotAgain, frames)

\* A handler returns without having waited: last records it.
Return(rec) ==
    /\ last' = rec
    /\ inflight' = ClearAgain(inflight)

\* A handler sends its command and waits in s.rpc.Call.
Suspend(f) ==
    /\ BagCardinality(inflight) < NumHandlers
    /\ inflight' = inflight (+) SetToBag({f})
    /\ last' = last

\* The handler of frame f returns after its wait: last records it.
Resume(f, rec) ==
    /\ last' = rec
    /\ inflight' = ClearAgain(inflight (-) SetToBag({f}))

(***************************************************************************)
(* CreateNvmeNamespace                                                     *)
(***************************************************************************)
\* A caller-supplied id with either spec; no id or a malformed id with the
\* spec of OneSubsys; a spec without subsystem; a request without namespace.
CreateRequests ==
    [id : CallerIds, ns : NsSpecs, missing : {FALSE}]
    \cup { [id |-> i, ns |-> s, missing |-> FALSE] :
               i \in {"", MalformedId}, s \in { x \in NsSpecs : x.subsystemId = OneSubsys } }
    \cup { [id |-> i, ns |-> NoSubsystemSpec, missing |-> FALSE] : i \in CallerIds }
    \cup { [id |-> i, ns |-> NoSubsystemSpec, missing |-> TRUE] : i \in CallerIds }

\* Lines 40-59: required fields, subsystem parameter, user-settable id.
\* Errors of the validation packages are plain Go errors (code Unknown).
CreateValidate(in) ==
    IF in.missing THEN "Unknown"
    ELSE IF in.ns.subsystemId = "" THEN "InvalidArgument"
    ELSE IF in.id # "" /\ ~ValidateUserSettable(in.id) THEN "Unknown"
    ELSE "OK"

\* Lines 50-60: the resolved resource name.
CreateName(in, gen) ==
    ResourceIDToVolumeName(IF in.id # "" THEN in.id ELSE GeneratedId(gen + 1))

\* Lines 75-84: the attach command.
AttachParams(in, subsys) ==
    [method |-> "controller_nvme_namespace_attach",
     bdev |-> in.ns.volumeId, nsid |-> FromInt32(in.ns.hostNsid), subnqn |-> subsys,
     cntlid |-> 0]

\* Variant: the subsystem is resolved before the registry is consulted.
CreatePreSubsystemFirst(in, gen) ==
    LET v == CreateValidate(in)
        name == CreateName(in, gen)
    IN  IF v # "OK"
        THEN [stage |-> "return", code |-> v, ns |-> NoNamespace, name |-> "", cmd |-> <<>>]
        ELSE IF in.ns.subsystemId \notin DOMAIN Subsystems
        THEN [stage |-> "return", code |-> "NotFound", ns |-> NoNamespace,
              name |-> name, cmd |-> <<>>]
        ELSE IF name \in DOMAIN Namespaces
        THEN [stage |-> "return", code |-> "OK", ns |-> Namespaces[name],
              name |-> name, cmd |-> <<>>]
        ELSE [stage |-> "call", code |-> "", ns |-> NoNamespace, name |-> name,
              cmd |-> <<AttachParams(in, Subsystems[in.ns.subsystemId])>>]

\* Lines 40-86: everything up to the engine call.  stage "return": the handler
\* returns (code, ns); stage "call": it issues cmd and waits for the reply.
CreatePre(in, gen) ==
    LET v == CreateValidate(in)
        name == CreateName(in, gen)
    IN  IF v # "OK"
        THEN [stage |-> "return", code |-> v, ns |-> NoNamespace, name |-> "", cmd |-> <<>>]
        ELSE IF name \in DOMAIN Namespaces
        THEN [stage |-> "return", code |-> "OK", ns |-> Namespaces[name],
              name |-> name, cmd |-> <<>>]
        ELSE IF in.ns.subsystemId \notin DOMAIN Subsystems
        THEN [stage |-> "return", code |-> "NotFound", ns |-> NoNamespace,
              name |-> name, cmd |-> <<>>]
        ELSE [stage |-> "call", code |-> "", ns |-> NoNamespace, name |-> name,
              cmd |-> <<AttachParams(in, Subsystems[in.ns.subsystemId])>>]

\* Line 97-98: the clone of the input, named and annotated.
CreateResponse(in, name) ==
    [name |-> name, spec |-> in.ns, status |-> AttachedStatus, nil |-> FALSE]

\* Variant: the entry is stored before the reply is examined.
CreatePostStoreAlways(reg, in, name, r) ==
    IF r = "error" THEN [code |-> "Unknown", ns |-> NoNamespace,
                         reg |-> RegistryPut(reg, name, CreateResponse(in, name))]
    ELSE IF r = "false" THEN [code |-> "InvalidArgument", ns |-> NoNamespace,
                         reg |-> RegistryPut(reg, name, CreateResponse(in, name))]
    ELSE [code |-> "OK", ns |-> CreateResponse(in, name),
          reg |-> RegistryPut(reg, name, CreateResponse(in, name))]

\* Lines 87-100: after the engine replied r; reg is the registry at that time.
CreatePost(reg, in, name, r) ==
    IF r = "error" THEN [code |-> "Unknown", ns |-> NoNamespace, reg |-> reg]
    ELSE IF r = "false" THEN [code |-> "InvalidArgument", ns |-> NoNamespace, reg |-> reg]
    ELSE [code |-> "OK", ns |-> CreateResponse(in, name),
          reg |-> RegistryPut(reg, name, CreateResponse(in, name))]

\* The previous request was a Create of the same caller-supplied id.
SameCreateAgain(in) ==
    last.op = "Create" /\ in.id # "" /\ last.req.id = in.id

\* Lines 38-86: the handler from its entry to s.rpc.Call or to an early return.
CreateCall(in) ==
    /\ ~aborted
    /\ in.id = "" => generated < MaxGenerated
    /\ LET pre == CreatePre(in, generated) IN
       /\ generated' = IF in.id = "" /\ CreateValidate(in) = "OK"
                       THEN generated + 1 ELSE generated
       /\ IF pre.stage = "return"
          THEN Return([NoCall EXCEPT !.op = "Create", !.req = in,
                          !.name = pre.name, !.code = pre.code, !.ns = pre.ns,
                          !.again = SameCreateAgain(in)])
          ELSE Suspend(Frame("Create", in, pre.name, NoNamespace, pre.cmd[1], 0, 0,
                             SameCreateAgain(in)))
    /\ UNCHANGED <<Namespaces, Subsystems, Pagination, attached, aborted>>

\* Lines 87-100: the handler from the engine's reply r to its return; r is the
\* reply of the engine's execution of the command where that is a step.
CreateReturn(f, r) ==
    /\ ~aborted
    /\ f.op = "Create" /\ r \in BoolReplies /\ f.reply \in {"", r}
    /\ LET post == CreatePost(Namespaces, f.in, f.name, r) IN
       /\ Namespaces' = post.reg
       /\ Resume(f, [NoCall EXCEPT !.op = "Create", !.req = f.in,
                        !.name = f.name, !.code = post.code, !.ns = post.ns,
                        !.cmds = <<f.cmd>>, !.reply = <<r>>,
                        !.again = f.again])
    /\ UNCHANGED <<Subsystems, Pagination, generated, attached, aborted>>

(***************************************************************************)
(* DeleteNvmeNamespace                                                     *)
(***************************************************************************)
\* Names a client can send: every key the registry can hold, the empty name
\* and a malformed name.
RegistryNames ==
    { ResourceIDToVolumeName(i) : i \in CallerIds }
    \cup { ResourceIDToVolumeName(GeneratedId(n)) : n \in 1..MaxGenerated }

RequestNames == RegistryNames \cup {"", MalformedName}

DeleteRequests == [name : RequestNames, allowMissing : BOOLEAN]

\* Lines 134-138: the detach command.
DetachParams(namespace, subsys) ==
    [method |-> "controller_nvme_namespace_detach",
     nsid |-> FromInt32(namespace.spec.hostNsid), subnqn |-> subsys, cntlid |-> 0]

\* Variant: allow_missing is not consulted.
DeletePreIgnoreAllowMissing(in) ==
    IF in.name = "" \/ ~ResourcenameValidate(in.name)
    THEN [stage |-> "return", code |-> "Unknown", cmd |-> <<>>]
    ELSE IF in.name \notin DOMAIN Namespaces
    THEN [stage |-> "return", code |-> "NotFound", cmd |-> <<>>]
    ELSE IF Namespaces[in.name].spec.subsystemId \notin DOMAIN Subsystems
    THEN [stage |-> "return", code |-> "Unknown", cmd |-> <<>>]
    ELSE [stage |-> "call", code |-> "",
          cmd |-> <<DetachParams(Namespaces[in.name],
                                 Subsystems[Namespaces[in.name].spec.subsystemId])>>]

\* Variant: a vanished subsystem is reported as NotFound, as Get reports it.
DeletePreSubsystemNotFound(in) ==
    IF in.name = "" \/ ~ResourcenameValidate(in.name)
    THEN [stage |-> "return", code |-> "Unknown", cmd |-> <<>>]
    ELSE IF in.name \notin DOMAIN Namespaces
    THEN [stage |-> "return", code |-> IF in.allowMissing THEN "OK" ELSE "NotFound",
          cmd |-> <<>>]
    ELSE IF Namespaces[in.name].spec.subsystemId \notin DOMAIN Subsystems
    THEN [stage |-> "return", code |-> "NotFound", cmd |-> <<>>]
    ELSE [stage |-> "call", code |-> "",
          cmd |-> <<DetachParams(Namespaces[in.name],
                                 Subsystems[Namespaces[in.name].spec.subsystemId])>>]

\* Lines 106-140: everything up to the engine call.
DeletePre(in) ==
    IF in.name = "" \/ ~ResourcenameValidate(in.name)
    THEN [stage |-> "return", code |-> "Unknown", cmd |-> <<>>]
    ELSE IF in.name \notin DOMAIN Namespaces
    THEN [stage |-> "return", code |-> IF in.allowMissing THEN "OK" ELSE "NotFound",
          cmd |-> <<>>]
    ELSE IF Namespaces[in.name].spec.subsystemId \notin DOMAIN Subsystems
    THEN [stage |-> "return", code |-> "Unknown", cmd |-> <<>>]
    ELSE [stage |-> "call", code |-> "",
          cmd |-> <<DetachParams(Namespaces[in.name],
                                 Subsystems[Namespaces[in.name].spec.subsystemId])>>]

\* Variant: the entry is deleted before the reply is examined.
DeletePostDeleteFirst(reg, namespace, r) ==
    IF r = "error" THEN [code |-> "Unknown", reg |-> RegistryDelete(reg, namespace.name)]
    ELSE IF r = "false"
    THEN [code |-> "InvalidArgument", reg |-> RegistryDelete(reg, namespace.name)]
    ELSE [code |-> "OK", reg |-> RegistryDelete(reg, namespace.name)]

\* Lines 141-152: after the engine replied r; namespace is the entry read at
\* line 117, reg the registry when the reply arrives.
DeletePost(reg, namespace, r) ==
    IF r = "error" THEN [code |-> "Unknown", reg |-> reg]
    ELSE IF r = "false" THEN [code |-> "InvalidArgument", reg |-> reg]
    ELSE [code |-> "OK", reg |-> RegistryDelete(reg, namespace.name)]

\* Lines 104-140: the handler from its entry to s.rpc.Call or to an early return.
DeleteCall(in) ==
    /\ ~aborted
    /\ LET pre == DeletePre(in) IN
       IF pre.stage = "return"
       THEN Return([NoCall EXCEPT !.op = "Delete", !.req = in,
                       !.name = in.name, !.code = pre.code,
                       !.entry = IF in.name \in DOMAIN Namespaces
                                 THEN Namespaces[in.name] ELSE NoNamespace])
       ELSE Suspend(Frame("Delete", in, in.name, Namespaces[in.name], pre.cmd[1], 0, 0,
                          FALSE))
    /\ UNCHANGED <<Namespaces, Subsystems, Pagination, generated, attached, aborted>>

\* Lines 141-152: the handler from the engine's reply r to its return.
DeleteReturn(f, r) ==
    /\ ~aborted
    /\ f.op = "Delete" /\ r \in BoolReplies /\ f.reply \in {"", r}
    /\ LET post == DeletePost(Namespaces, f.entry, r) IN
       /\ Namespaces' = post.reg
       /\ Resume(f, [NoCall EXCEPT !.op = "Delete", !.req = f.in,
                        !.name = f.name, !.code = post.code, !.entry = f.entry,
                        !.cmds = <<f.cmd>>, !.reply = <<r>>])
    /\ UNCHANGED <<Subsystems, Pagination, generated, attached, aborted>>

\* The engine executes the attach or detach of a suspended handler and
\* replies: a successful attach adds the device, a successful detach removes it.
EngineExec(f, r) ==
    /\ ~aborted
    /\ f.op \in {"Create", "Delete"} /\ f.reply = ""
    /\ inflight' = (inflight (-) SetToBag({f})) (+) SetToBag({[f EXCEPT !.reply = r]})
    /\ attached' =
          IF r # "true" THEN attached
          ELSE IF f.op = "Create" THEN attached \cup {<<f.cmd.subnqn, f.cmd.nsid>>}
          ELSE attached \ {<<f.cmd.subnqn, f.cmd.nsid>>}
    /\ UNCHANGED <<Namespaces, Subsystems, Pagination, generated, last, aborted>>

(***************************************************************************)
(* UpdateNvmeNamespace                                                     *)
(***************************************************************************)
\* maskOk: fieldmask.Validate accepts the update mask for the message.
UpdateRequests == [name : RequestNames, allowMissing : BOOLEAN, maskOk : BOOLEAN]

\* Variant: allow_missing makes the update of an unregistered name succeed.
UpdateCodeHonoursAllowMissing(in) ==
    IF in.name = "" \/ ~ResourcenameValidate(in.name) THEN "Unknown"
    ELSE IF in.name \notin DOMAIN Namespaces
    THEN (IF in.allowMissing THEN "OK" ELSE "NotFound")
    ELSE IF ~in.maskOk THEN "Unknown"
    ELSE "Unimplemented"

\* Lines 158-185: the whole handler; it reads the registry and returns.
UpdateCode(in) ==
    IF in.name = "" \/ ~ResourcenameValidate(in.name) THEN "Unknown"
    ELSE IF in.name \notin DOMAIN Namespaces THEN "NotFound"
    ELSE IF ~in.maskOk THEN "Unknown"
    ELSE "Unimplemented"

\* Lines 156-186: the handler has no engine call and returns in one step.
UpdateNvmeNamespace(in) ==
    /\ ~aborted
    /\ Return([NoCall EXCEPT !.op = "Update", !.req = in,
                  !.name = in.name, !.code = UpdateCode(in)])
    /\ UNCHANGED <<Namespaces, Subsystems, Pagination, generated, attached, aborted>>

(***************************************************************************)
(* GetNvmeNamespace                                                        *)
(***************************************************************************)
GetRequests == [name : RequestNames]

\* Lines 263-266: the list command.
ListParams(subsys) ==
    [method |-> "controller_nvme_namespace_list", subnqn |-> subsys, cntlid |-> 0]

\* Lines 239-268: everything up to the engine call.
GetPre(in) ==
    IF in.name = "" \/ ~ResourcenameValidate(in.name)
    THEN [stage |-> "return", code |-> "Unknown", cmd |-> <<>>]
    ELSE IF in.name \notin DOMAIN Namespaces
    THEN [stage |-> "return", code |-> "NotFound", cmd |-> <<>>]
    ELSE IF Namespaces[in.name].spec.subsystemId \notin DOMAIN Subsystems
    THEN [stage |-> "return", code |-> "NotFound", cmd |-> <<>>]
    ELSE [stage |-> "call", code |-> "",
          cmd |-> <<ListParams(Subsystems[Namespaces[in.name].spec.subsystemId])>>]

\* Line 277: the descriptor built from the matching engine entry.
GetResponse(r) ==
    [name |-> "", spec |-> [subsystemId |-> "", volumeId |-> "", hostNsid |-> ToInt32(r)],
     status |-> AttachedStatus, nil |-> FALSE]

\* Variant: the first entry is returned without comparing its Nsid.
GetPostFirstEntry(namespace, reply) ==
    IF reply.err THEN [code |-> "Unknown", ns |-> NoNamespace]
    ELSE IF reply.namespaces # <<>>
         THEN [code |-> "OK", ns |-> GetResponse(reply.namespaces[1])]
         ELSE [code |-> "InvalidArgument", ns |-> NoNamespace]

\* Lines 269-282: the scan of the reply for r.Nsid == int(namespace.Spec.HostNsid).
GetPost(namespace, reply) ==
    IF reply.err THEN [code |-> "Unknown", ns |-> NoNamespace]
    ELSE LET hits == { i \in 1..Len(reply.namespaces) :
                         reply.namespaces[i] = FromInt32(namespace.spec.hostNsid) }
         IN  IF hits # {}
             THEN [code |-> "OK",
                   ns |-> GetResponse(reply.namespaces[CHOOSE i \in hits :
                                                         \A j \in hits : i <= j])]
             ELSE [code |-> "InvalidArgument", ns |-> NoNamespace]

\* Lines 237-268: the handler from its entry to s.rpc.Call or to an early return.
GetCall(in) ==
    /\ ~aborted
    /\ LET pre == GetPre(in) IN
       IF pre.stage = "return"
       THEN Return([NoCall EXCEPT !.op = "Get", !.req = in,
                       !.name = in.name, !.code = pre.code])
       ELSE Suspend(Frame("Get", in, in.name, Namespaces[in.name], pre.cmd[1], 0, 0,
                          FALSE))
    /\ UNCHANGED <<Namespaces, Subsystems, Pagination, generated, attached, aborted>>

\* Lines 269-282: the engine's reply arrives and the handler runs to its return.
GetReturn(f, reply) ==
    /\ ~aborted
    /\ f.op = "Get"
    /\ LET post == GetPost(f.entry, reply) IN
       Resume(f, [NoCall EXCEPT !.op = "Get", !.req = f.in,
                     !.name = f.name, !.code = post.code, !.ns = post.ns,
                     !.entry = f.entry, !.cmds = <<f.cmd>>, !.reply = <<reply>>])
    /\ UNCHANGED <<Namespaces, Subsystems, Pagination, generated, attached, aborted>>

(***************************************************************************)
(* NvmeNamespaceStats                                                      *)
(***************************************************************************)
StatsRequests == [name : RequestNames]

\* Lines 288-306: everything up to the engine call.
StatsPre(in) ==
    IF in.name = "" \/ ~ResourcenameValidate(in.name)
    THEN [stage |-> "return", code |-> "Unknown", cmd |-> <<>>]
    ELSE IF in.name \notin DOMAIN Namespaces
    THEN [stage |-> "return", code |-> "NotFound", cmd |-> <<>>]
    ELSE [stage |-> "call", code |-> "",
          cmd |-> <<[method |-> "controller_nvme_get_iostat"]>>]

\* The bdevs of all controllers, in scan order.
RECURSIVE Flatten(_)
Flatten(cs) == IF cs = <<>> THEN <<>> ELSE Head(cs) \o Flatten(Tail(cs))

\* Variant: the device is looked up by the last segment of the volume id.
StatsPostByBaseName(namespace, reply) ==
    IF reply.err THEN [code |-> "Unknown", stats |-> NoStats]
    ELSE LET bdevs == Flatten(reply.controllers)
             base == IF namespace.spec.volumeId = "volumes/v1" THEN "v1"
                     ELSE namespace.spec.volumeId
             hits == { i \in 1..Len(bdevs) : bdevs[i].bdevName = base }
         IN  IF hits # {}
             THEN LET r == bdevs[CHOOSE i \in hits : \A j \in hits : i <= j]
                  IN  [code |-> "OK",
                       stats |-> [readOpsCount |-> ToInt32(r.readIos),
                                  writeOpsCount |-> ToInt32(r.writeIos), nil |-> FALSE]]
             ELSE [code |-> "InvalidArgument", stats |-> NoStats]

\* Lines 307-324: the scan for r.BdevName == namespace.Spec.VolumeId.Value.
StatsPost(namespace, reply) ==
    IF reply.err THEN [code |-> "Unknown", stats |-> NoStats]
    ELSE LET bdevs == Flatten(reply.controllers)
             hits == { i \in 1..Len(bdevs) : bdevs[i].bdevName = namespace.spec.volumeId }
         IN  IF hits # {}
             THEN LET r == bdevs[CHOOSE i \in hits : \A j \in hits : i <= j]
                  IN  [code |-> "OK",
                       stats |-> [readOpsCount |-> ToInt32(r.readIos),
                                  writeOpsCount |-> ToInt32(r.writeIos), nil |-> FALSE]]
             ELSE [code |-> "InvalidArgument", stats |-> NoStats]

\* Lines 286-306: the handler from its entry to s.rpc.Call or to an early return.
StatsCall(in) ==
    /\ ~aborted
    /\ LET pre == StatsPre(in) IN
       IF pre.stage = "return"
       THEN Return([NoCall EXCEPT !.op = "Stats", !.req = in,
                       !.name = in.name, !.code = pre.code])
       ELSE Suspend(Frame("Stats", in, in.name, Namespaces[in.name], pre.cmd[1], 0, 0,
                          FALSE))
    /\ UNCHANGED <<Namespaces, Subsystems, Pagination, generated, attached, aborted>>

\* Lines 307-324: the engine's reply arrives and the handler runs to its return.
StatsReturn(f, reply) ==
    /\ ~aborted
    /\ f.op = "Stats"
    /\ LET post == StatsPost(f.entry, reply) IN
       Resume(f, [NoCall EXCEPT !.op = "Stats", !.req = f.in,
                     !.name = f.name, !.code = post.code, !.stats = post.stats,
                     !.entry = f.entry, !.cmds = <<f.cmd>>, !.reply = <<reply>>])
    /\ UNCHANGED <<Namespaces, Subsystems, Pagination, generated, attached, aborted>>

(***************************************************************************)
(* ListNvmeNamespaces                                                      *)
(***************************************************************************)
TokenId(n) == IF n = 1 THEN "7c9e6679-0001" ELSE IF n = 2 THEN "7c9e6679-0002"
              ELSE IF n = 3 THEN "7c9e6679-0003" ELSE "7c9e6679-0004"
UnknownToken == "unknown-token"

PageTokens == {""} \cup { TokenId(n) : n \in 1..MaxTokens } \cup {UnknownToken}
PageSizes == {-1, 0, 1}

ListRequests == [parent : {OneSubsys, ""}, pageSize : PageSizes, pageToken : PageTokens]

\* server.ExtractPagination (called at line 197).
DefaultPageSize == 50
MaxPageSize == 250
ExtractPagination(pageSize, pageToken, pagination) ==
    IF pageSize < 0 THEN [code |-> "InvalidArgument", size |-> -1, offset |-> -1]
    ELSE LET size == IF pageSize = 0 THEN DefaultPageSize
                     ELSE IF pageSize > MaxPageSize THEN MaxPageSize
                     ELSE pageSize
         IN  IF pageToken = "" THEN [code |-> "OK", size |-> size, offset |-> 0]
             ELSE IF pageToken \notin DOMAIN pagination
             THEN [code |-> "NotFound", size |-> -1, offset |-> -1]
             ELSE [code |-> "OK", size |-> size, offset |-> pagination[pageToken]]

\* server.LimitPagination (called at line 222): result[offset:end], and whether
\* elements remain; slicing panics when offset is beyond the end.
LimitPagination(result, offset, size) ==
    LET hasMoreElements == offset + size < Len(result)
        end == IF hasMoreElements THEN offset + size ELSE Len(result)
    IN  [panic |-> offset > end,
         result |-> IF offset > end THEN <<>> ELSE SubSeq(result, offset + 1, end),
         hasMoreElements |-> hasMoreElements]

\* Insertion of v into an ascending sequence.
RECURSIVE Insert(_, _)
Insert(v, q) ==
    IF q = <<>> THEN <<v>>
    ELSE IF v < Head(q) THEN <<v>> \o q
    ELSE <<Head(q)>> \o Insert(v, Tail(q))

RECURSIVE SortAscending(_)
SortAscending(q) == IF q = <<>> THEN <<>> ELSE Insert(Head(q), SortAscending(Tail(q)))

\* Variant: the entries stay in the engine's order.
sortNvmeNamespacesUnsorted(namespaces) == namespaces

\* Lines 31-35; an entry is its Spec.HostNsid, all an entry of a list holds.
sortNvmeNamespaces(namespaces) == SortAscending(namespaces)

\* Lines 227-231: one entry per engine namespace, HostNsid: int32(r.Nsid).
Blobarray(namespaces) == [i \in 1..Len(namespaces) |-> ToInt32(namespaces[i])]

\* Line 233: the response holds the entries; NextPageToken is not set.
ListResponse(entries, token) == [nvmeNamespaces |-> entries, nextPageToken |-> ""]

\* Variant: a page token that is not stored restarts the listing at offset 0.
ListPreUnknownTokenRestarts(in) ==
    LET known == IF in.pageToken \in DOMAIN Pagination THEN in.pageToken ELSE ""
        p == ExtractPagination(in.pageSize, known, Pagination) IN
    IF in.parent = ""
    THEN [stage |-> "return", code |-> "Unknown", size |-> 0, offset |-> 0, cmd |-> <<>>]
    ELSE IF p.code # "OK"
    THEN [stage |-> "return", code |-> p.code, size |-> 0, offset |-> 0, cmd |-> <<>>]
    ELSE IF in.parent \notin DOMAIN Subsystems
    THEN [stage |-> "return", code |-> "NotFound", size |-> p.size, offset |-> p.offset,
          cmd |-> <<>>]
    ELSE [stage |-> "call", code |-> "", size |-> p.size, offset |-> p.offset,
          cmd |-> <<ListParams(Subsystems[in.parent])>>]

\* Lines 191-214: everything up to the engine call.
ListPre(in) ==
    LET p == ExtractPagination(in.pageSize, in.pageToken, Pagination) IN
    IF in.parent = ""
    THEN [stage |-> "return", code |-> "Unknown", size |-> 0, offset |-> 0, cmd |-> <<>>]
    ELSE IF p.code # "OK"
    THEN [stage |-> "return", code |-> p.code, size |-> 0, offset |-> 0, cmd |-> <<>>]
    ELSE IF in.parent \notin DOMAIN Subsystems
    THEN [stage |-> "return", code |-> "NotFound", size |-> p.size, offset |-> p.offset,
          cmd |-> <<>>]
    ELSE [stage |-> "call", code |-> "", size |-> p.size, offset |-> p.offset,
          cmd |-> <<ListParams(Subsystems[in.parent])>>]

\* Variant: the store keeps the newest cursor only.
PaginationPutNewestOnly(pagination, token, offset) == [t \in {token} |-> offset]

\* s.Pagination[token] = offset
PaginationPut(pagination, token, offset) ==
    [t \in (DOMAIN pagination) \cup {token} |-> IF t = token THEN offset ELSE pagination[t]]

\* Variant: a failed engine call is taken for an empty result.
ListPostIgnoreError(pagination, offset, size, reply, token) ==
    LET lim == LimitPagination(reply.namespaces, offset, size) IN
    IF lim.panic
    THEN [code |-> "Panic", response |-> ListResponse(<<>>, ""), pagination |-> pagination]
    ELSE [code |-> "OK",
          response |-> ListResponse(sortNvmeNamespaces(Blobarray(lim.result)),
                                    IF lim.hasMoreElements THEN token ELSE ""),
          pagination |-> IF lim.hasMoreElements
                         THEN PaginationPut(pagination, token, offset + size)
                         ELSE pagination]

\* Variant: the new token is mapped to the offset of this page.
ListPostStoresOffset(pagination, offset, size, reply, token) ==
    IF reply.err
    THEN [code |-> "Unknown", response |-> ListResponse(<<>>, ""), pagination |-> pagination]
    ELSE LET lim == LimitPagination(reply.namespaces, offset, size) IN
         IF lim.panic
         THEN [code |-> "Panic", response |-> ListResponse(<<>>, ""),
               pagination |-> pagination]
         ELSE [code |-> "OK",
               response |-> ListResponse(sortNvmeNamespaces(Blobarray(lim.result)),
                                         IF lim.hasMoreElements THEN token ELSE ""),
               pagination |-> IF lim.hasMoreElements
                              THEN PaginationPut(pagination, token, offset)
                              ELSE pagination]

\* Lines 215-233: after the engine replied; token is the fresh uuid of line 224.
ListPost(pagination, offset, size, reply, token) ==
    IF reply.err
    THEN [code |-> "Unknown", response |-> ListResponse(<<>>, ""), pagination |-> pagination]
    ELSE LET lim == LimitPagination(reply.namespaces, offset, size) IN
         IF lim.panic
         THEN [code |-> "Panic", response |-> ListResponse(<<>>, ""),
               pagination |-> pagination]
         ELSE [code |-> "OK",
               response |-> ListResponse(sortNvmeNamespaces(Blobarray(lim.result)),
                                         IF lim.hasMoreElements THEN token ELSE ""),
               pagination |-> IF lim.hasMoreElements
                              THEN PaginationPut(pagination, token, offset + size)
                              ELSE pagination]

\* uuid.New(): a token never handed out before.
NewToken == TokenId(Cardinality(DOMAIN Pagination) + 1)

\* Lines 189-214: the handler from its entry to s.rpc.Call or to an early return.
ListCall(in) ==
    /\ ~aborted
    /\ LET pre == ListPre(in) IN
       IF pre.stage = "return"
       THEN Return([NoCall EXCEPT !.op = "List", !.req = in, !.code = pre.code])
       ELSE Suspend(Frame("List", in, "", NoNamespace, pre.cmd[1], pre.offset, pre.size,
                          FALSE))
    /\ UNCHANGED <<Namespaces, Subsystems, Pagination, generated, attached, aborted>>

\* The handler of frame f from the engine's reply on, given what ListPost computed.
ListResume(f, reply, post) ==
    /\ Cardinality(DOMAIN post.pagination) <= MaxTokens
    /\ Pagination' = post.pagination
    /\ Resume(f, [NoCall EXCEPT !.op = "List", !.req = f.in, !.code = post.code,
                     !.cmds = <<f.cmd>>, !.reply = <<reply>>,
                     !.offset = f.offset, !.size = f.size,
                     !.entries = post.response.nvmeNamespaces,
                     !.token = post.response.nextPageToken])

\* Lines 215-233: the engine's reply arrives and the handler runs to its return.
ListReturn(f, reply) ==
    /\ ~aborted
    /\ f.op = "List"
    /\ ListResume(f, reply, ListPost(Pagination, f.offset, f.size, reply, NewToken))
    /\ UNCHANGED <<Namespaces, Subsystems, generated, attached, aborted>>

(***************************************************************************)
(* The data race on the maps.  No handler takes a lock, so a handler that  *)
(* writes s.Namespaces (lines 99, 151) or s.Pagination (line 225) can run  *)
(* at the same moment as another access to the same map.  The accesses     *)
(* then take effect in one order or the other (the steps above), or the Go *)
(* runtime detects them and ends the process with "fatal error: concurrent *)
(* map writes" or "concurrent map read and map write" (the steps below).   *)
(***************************************************************************)
\* The handler of frame f writes s.Namespaces when the engine replies r.
WritesNamespaces(f, r) == f.op \in {"Create", "Delete"} /\ r = "true"

\* The handler of frame f writes s.Pagination when the engine replies r.
WritesPagination(f, r) ==
    /\ f.op = "List"
    /\ ~r.err
    /\ LimitPagination(r.namespaces, f.offset, f.size).hasMoreElements

WritesMap(f, r) == WritesNamespaces(f, r) \/ WritesPagination(f, r)

\* The process has ended: the server state is gone and nothing is answered.
Abort ==
    /\ ~aborted
    /\ aborted' = TRUE
    /\ UNCHANGED <<Namespaces, Subsystems, Pagination, generated, last, inflight, attached>>

\* The replies the engine can give to the command of frame f.
EngineReplies(f) ==
    IF f.op \in {"Create", "Delete"} THEN BoolReplies
    ELSE IF f.op = "Stats" THEN IostatReplies
    ELSE ListReplies

\* Two handlers write the same map at once (lines 99 and 151 for
\* s.Namespaces, line 225 for s.Pagination); rsf and rsg are the replies the
\* engine can have given them.
ConcurrentMapWrites(f, rsf, g, rsg) ==
    /\ f # g \/ CopiesIn(f, inflight) > 1
    /\ (f.op = "List") <=> (g.op = "List")
    /\ \E r \in rsf : WritesMap(f, r)
    /\ \E r \in rsg : WritesMap(g, r)
    /\ Abort

\* A handler writes a map while the handler of an arriving request reads it
\* (s.Namespaces at lines 62, 117, 174, 250, 299; s.Pagination at line 197);
\* rs are the replies the engine can have given the writer.
ConcurrentMapReadWrite(f, rs) ==
    /\ \E r \in rs : WritesMap(f, r)
    /\ Abort

(***************************************************************************)
(* The subsystem directory is maintained by the subsystem handlers.        *)
(***************************************************************************)
SubsystemCreate(id) ==
    /\ ~aborted
    /\ id \notin DOMAIN Subsystems
    /\ Subsystems' = [s \in (DOMAIN Subsystems) \cup {id} |->
                        IF s = id THEN NqnOf(id) ELSE Subsystems[s]]
    /\ UNCHANGED <<Namespaces, Pagination, generated, last, inflight, attached, aborted>>

SubsystemDelete(id) ==
    /\ ~aborted
    /\ id \in DOMAIN Subsystems
    /\ Subsystems' = [s \in (DOMAIN Subsystems) \ {id} |-> Subsystems[s]]
    /\ UNCHANGED <<Namespaces, Pagination, generated, last, inflight, attached, aborted>>

(***************************************************************************)
(* Spec: Create and Delete requests, each in its own goroutine, with one   *)
(* subsystem that comes and goes.                                          *)
(***************************************************************************)
\* A new Server: empty maps.
Init ==
    /\ Namespaces = [n \in {} |-> NoNamespace]
    /\ Subsystems = [s \in {} |-> ""]
    /\ Pagination = [t \in {} |-> 0]
    /\ generated = 0
    /\ last = NoCall
    /\ inflight = EmptyBag
    /\ attached = {}
    /\ aborted = FALSE

Next ==
    \/ \E in \in CreateRequests : CreateCall(in)
    \/ \E in \in DeleteRequests : DeleteCall(in)
    \/ \E f \in BagToSet(inflight), r \in BoolReplies : CreateReturn(f, r)
    \/ \E f \in BagToSet(inflight), r \in BoolReplies : DeleteReturn(f, r)
    \/ \E f, g \in BagToSet(inflight) :
          ConcurrentMapWrites(f, EngineReplies(f), g, EngineReplies(g))
    \/ \E f \in BagToSet(inflight) : ConcurrentMapReadWrite(f, EngineReplies(f))
    \/ SubsystemCreate(OneSubsys)
    \/ SubsystemDelete(OneSubsys)

Spec == Init /\ [][Next]_vars

(***************************************************************************)
(* SpecRead: Get and Stats requests beside the Create and Delete requests  *)
(* of one caller-named namespace.                                          *)
(***************************************************************************)
OneName == ResourceIDToVolumeName(CHOOSE i \in CallerIds : TRUE)
OneNames == {OneName, "", MalformedName}

ReadCreateRequests == { in \in CreateRequests : in.id # "" /\ in.ns \in NsSpecs }

NextRead ==
    \/ \E in \in ReadCreateRequests : CreateCall(in)
    \/ \E in \in DeleteRequests : in.name = OneName /\ DeleteCall(in)
    \/ \E in \in GetRequests : in.name \in OneNames /\ GetCall(in)
    \/ \E in \in StatsRequests : in.name \in OneNames /\ StatsCall(in)
    \/ \E f \in BagToSet(inflight), r \in BoolReplies : CreateReturn(f, r)
    \/ \E f \in BagToSet(inflight), r \in BoolReplies : DeleteReturn(f, r)
    \/ \E f \in BagToSet(inflight), reply \in ListReplies : GetReturn(f, reply)
    \/ \E f \in BagToSet(inflight), reply \in IostatReplies : StatsReturn(f, reply)
    \/ \E f, g \in BagToSet(inflight) :
          ConcurrentMapWrites(f, EngineReplies(f), g, EngineReplies(g))
    \/ \E f \in BagToSet(inflight) : ConcurrentMapReadWrite(f, EngineReplies(f))
    \/ \E id \in SubsysIds : SubsystemCreate(id)
    \/ \E id \in SubsysIds : SubsystemDelete(id)

SpecRead == Init /\ [][NextRead]_vars

(***************************************************************************)
(* SpecList: list requests of one subsystem, each in its own goroutine.    *)
(***************************************************************************)
NextList ==
    \/ \E in \in ListRequests : ListCall(in)
    \/ \E f \in BagToSet(inflight), reply \in ListReplies : ListReturn(f, reply)
    \/ \E f, g \in BagToSet(inflight) :
          ConcurrentMapWrites(f, EngineReplies(f), g, EngineReplies(g))
    \/ \E f \in BagToSet(inflight) : ConcurrentMapReadWrite(f, EngineReplies(f))
    \/ SubsystemCreate(OneSubsys)
    \/ SubsystemDelete(OneSubsys)

SpecList == Init /\ [][NextList]_vars

(***************************************************************************)
(* SpecAll: the six handlers on one caller-named namespace, with one       *)
(* subsystem that comes and goes, lists of page size 1, three replies of   *)
(* the engine to a list command and two to an iostat command.              *)
(***************************************************************************)
AllCreateRequests == { in \in CreateRequests : in.id # "" }
\* Page size 1 or a negative one; a request that is rejected for its page
\* size or its parent carries no page token.
AllListRequests ==
    { in \in ListRequests :
        /\ in.pageSize \in {-1, 1}
        /\ (in.pageSize = -1 \/ in.parent = "") => in.pageToken = "" }
AllListReplies ==
    { [err |-> TRUE, namespaces |-> <<>>],
      [err |-> FALSE, namespaces |-> <<>>],
      [err |-> FALSE, namespaces |-> <<FromInt32(2), FromInt32(1)>>] }
AllIostatReplies == { r \in IostatReplies : r.err \/ Len(r.controllers) = 2 }
AllEngineReplies(f) ==
    IF f.op \in {"List", "Get"} THEN AllListReplies
    ELSE IF f.op = "Stats" THEN AllIostatReplies
    ELSE BoolReplies

NextAll ==
    \/ \E in \in AllCreateRequests : CreateCall(in)
    \/ \E in \in DeleteRequests : in.name \in {OneName, MalformedName} /\ DeleteCall(in)
    \/ \E in \in UpdateRequests : in.name \in OneNames /\ UpdateNvmeNamespace(in)
    \/ \E in \in GetRequests : in.name \in {OneName, MalformedName} /\ GetCall(in)
    \/ \E in \in StatsRequests : in.name \in {OneName, MalformedName} /\ StatsCall(in)
    \/ \E in \in AllListRequests : ListCall(in)
    \/ \E f \in BagToSet(inflight), r \in BoolReplies : CreateReturn(f, r)
    \/ \E f \in BagToSet(inflight), r \in BoolReplies : DeleteReturn(f, r)
    \/ \E f \in BagToSet(inflight), reply \in AllListReplies : GetReturn(f, reply)
    \/ \E f \in BagToSet(inflight), reply \in AllIostatReplies : StatsReturn(f, reply)
    \/ \E f \in BagToSet(inflight), reply \in AllListReplies : ListReturn(f, reply)
    \/ \E f, g \in BagToSet(inflight) :
          ConcurrentMapWrites(f, AllEngineReplies(f), g, AllEngineReplies(g))
    \/ \E f \in BagToSet(inflight) : ConcurrentMapReadWrite(f, AllEngineReplies(f))
    \/ SubsystemCreate(OneSubsys)
    \/ SubsystemDelete(OneSubsys)

SpecAll == Init /\ [][NextAll]_vars

(***************************************************************************)
(* SpecConc: Create and Delete requests of caller-named namespaces, each   *)
(* in its own goroutine, on a server whose subsystems exist.               *)
(***************************************************************************)
ConcCreateRequests == [id : CallerIds, ns : NsSpecs, missing : {FALSE}]
ConcDeleteRequests == [name : { ResourceIDToVolumeName(i) : i \in CallerIds },
                       allowMissing : BOOLEAN]

NextConc ==
    \/ \E in \in ConcCreateRequests : CreateCall(in)
    \/ \E in \in ConcDeleteRequests : DeleteCall(in)
    \/ \E f \in BagToSet(inflight), r \in BoolReplies : EngineExec(f, r)
    \/ \E f \in BagToSet(inflight) : CreateReturn(f, f.reply)
    \/ \E f \in BagToSet(inflight) : DeleteReturn(f, f.reply)
    \/ \E f, g \in BagToSet(inflight) : ConcurrentMapWrites(f, {f.reply}, g, {g.reply})
    \/ \E f \in BagToSet(inflight) : ConcurrentMapReadWrite(f, {f.reply})

\* The server with both subsystems created and no namespace yet.
InitConc ==
    /\ Namespaces = [n \in {} |-> NoNamespace]
    /\ Subsystems = [s \in SubsysIds |-> NqnOf(s)]
    /\ Pagination = [t \in {} |-> 0]
    /\ generated = 0
    /\ last = NoCall
    /\ inflight = EmptyBag
    /\ attached = {}
    /\ aborted = FALSE

SpecConc == InitConc /\ [][NextConc]_vars

(***************************************************************************)
(* Properties.  A request is answered in the step in which its handler     *)
(* returns: at once, in the step that read the maps (no engine command),   *)
(* or after the wait in s.rpc.Call.  last' is then the request with its    *)
(* response, and the unprimed variables are the server state that step     *)
(* met.  A handler that sends an engine command does so in the step that   *)
(* suspends it; the frame holds what it read.                              *)
(***************************************************************************)
\* A handler returns in this step.
Completed == last' # last \/ BagCardinality(inflight') < BagCardinality(inflight)

Handled(op) == Completed /\ last'.op = op

\* The handler of op returns in the step that read the maps.
ReturnsAtOnce(op) == Handled(op) /\ last'.cmds = <<>>

\* The handler of op returns after its wait for the engine.
ReturnsAfterCall(op) == Handled(op) /\ last'.cmds # <<>>

\* The frames of the handlers that send their engine command in this step.
Suspending ==
    IF BagCardinality(inflight') > BagCardinality(inflight)
    THEN { f \in BagToSet(inflight') : CopiesIn(f, inflight') > CopiesIn(f, inflight) }
    ELSE {}

\* Two valid Create requests with the same caller-supplied id, the second
\* sent after the first returned and no other request returning in between.
CreatedTwice ==
    /\ Handled("Create") /\ last'.again
    /\ CreateValidate(last.req) = "OK" /\ CreateValidate(last'.req) = "OK"

\* C1 as stated: two Create calls in sequence with the same caller-supplied
\* id return the same Namespace and issue exactly one engine attach between
\* them, whatever the state and the engine's replies.
C1_SameNamespaceOneAttach ==
    [][CreatedTwice =>
          /\ last'.ns = last.ns
          /\ Len(last.cmds) + Len(last'.cmds) = 1]_vars

\* C1 amended: when the first of the two Create calls succeeds and no other
\* request returns between them, the second succeeds with the same Namespace
\* and issues no engine command, so at most one engine attach is issued
\* across the two calls.
C1_IdempotentAfterSuccess ==
    [][(CreatedTwice /\ last.code = "OK") =>
          /\ last'.code = "OK"
          /\ last'.ns = last.ns
          /\ last'.cmds = <<>>
          /\ Len(last.cmds) <= 1]_vars

\* A Create repeated the previous Create's id with another spec and got the
\* stored Namespace back without an engine call.
C1_Witness ==
    /\ last.op = "Create" /\ last.again /\ last.code = "OK"
    /\ last.cmds = <<>>
    /\ last.name \in DOMAIN Namespaces /\ last.ns = Namespaces[last.name]
    /\ last.ns.spec # last.req.ns

\* C2: a Create that finds its resolved name in the registry (line 62)
\* returns the stored entry at once, leaving registry and cursor store as
\* they were, whatever its subsystem, volume and host id and whether or not
\* its subsystem is in the directory; and no Create sends an engine command
\* for a name it found registered.
C2_HitReturnsStored ==
    [][/\ (ReturnsAtOnce("Create") /\ last'.name # ""
                                   /\ last'.name \in DOMAIN Namespaces) =>
             /\ last'.code = "OK"
             /\ last'.ns = Namespaces[last'.name]
             /\ Namespaces' = Namespaces
             /\ Pagination' = Pagination
       /\ \A f \in Suspending : f.op = "Create" => f.name \notin DOMAIN Namespaces]_vars

\* A Create hit the registry with a spec that differs from the stored one in
\* subsystem, volume and host id, its subsystem absent from the directory,
\* while a cursor is stored.
C2_Witness ==
    /\ last.op = "Create" /\ last.code = "OK" /\ last.cmds = <<>>
    /\ last.name \in DOMAIN Namespaces /\ last.ns = Namespaces[last.name]
    /\ last.ns.spec.subsystemId # last.req.ns.subsystemId
    /\ last.ns.spec.volumeId # last.req.ns.volumeId
    /\ last.ns.spec.hostNsid # last.req.ns.hostNsid
    /\ last.req.ns.subsystemId \notin DOMAIN Subsystems
    /\ DOMAIN Pagination # {}

\* C3: two Create handlers with the same resolved name are never both past
\* the registry lookup with a miss (suspended at their attach command), so at
\* most one attach is issued for the name.
C3_OneMissPerName ==
    \A n \in RegistryNames :
        LET misses == { f \in BagToSet(inflight) : f.op = "Create" /\ f.name = n }
        IN  \/ misses = {}
            \/ /\ Cardinality(misses) = 1
               /\ \A f \in misses : CopiesIn(f, inflight) = 1

\* C4: no step of a Create that fails changes the registry (the step that
\* sends the attach included); a Create that succeeds after its attach puts
\* under the resolved name the input namespace with that name and the status
\* pciState 2, pciOperState 1, and changes no other entry.
C4_CreateAllOrNothing ==
    [][/\ (\E f \in Suspending : f.op = "Create") => Namespaces' = Namespaces
       /\ Handled("Create") =>
             IF last'.code # "OK" \/ last'.cmds = <<>> THEN Namespaces' = Namespaces
             ELSE /\ DOMAIN Namespaces' = (DOMAIN Namespaces) \cup {last'.name}
                  /\ \A n \in (DOMAIN Namespaces) \ {last'.name} :
                        Namespaces'[n] = Namespaces[n]
                  /\ Namespaces'[last'.name].name = last'.name
                  /\ Namespaces'[last'.name].spec = last'.req.ns
                  /\ Namespaces'[last'.name].status =
                        [pciState |-> 2, pciOperState |-> 1]]_vars

\* A Create failed after the engine refused the attach, with another entry
\* in the registry and none under its own name.
C4_Witness ==
    /\ last.op = "Create" /\ last.code = "InvalidArgument" /\ last.reply = <<"false">>
    /\ last.name \notin DOMAIN Namespaces
    /\ DOMAIN Namespaces # {}

\* C5: a Delete that does not find its well-formed name in the registry
\* (line 117) returns at once and leaves the registry as it was; it succeeds
\* when allow_missing is set and fails with NotFound when it is not; and no
\* Delete sends an engine command for a name it did not find.
C5_DeleteMissing ==
    [][/\ (ReturnsAtOnce("Delete") /\ ResourcenameValidate(last'.name)
                                   /\ last'.name \notin DOMAIN Namespaces) =>
             /\ Namespaces' = Namespaces
             /\ last'.code = IF last'.req.allowMissing THEN "OK" ELSE "NotFound"
       /\ \A f \in Suspending : f.op = "Delete" => f.name \in DOMAIN Namespaces]_vars

\* A Delete with allow_missing of an unregistered name succeeded, another
\* name being registered.
C5_Witness ==
    /\ last.op = "Delete" /\ last.req.allowMissing /\ last.code = "OK"
    /\ last.cmds = <<>>
    /\ last.name \notin DOMAIN Namespaces
    /\ DOMAIN Namespaces # {}

\* C6: a Delete that finds its name in the registry and the entry's
\* subsystem in the directory sends one detach keyed by the entry's host id
\* and the subsystem's nqn; on the reply true it succeeds and exactly that
\* name leaves the registry, all other entries unchanged; on the reply false
\* it fails InvalidArgument and leaves the registry as it was.
C6_DeletePresent ==
    [][/\ (ReturnsAtOnce("Delete") /\ last'.name \in DOMAIN Namespaces) =>
             Namespaces[last'.name].spec.subsystemId \notin DOMAIN Subsystems
       /\ \A f \in Suspending : f.op = "Delete" =>
             /\ f.cmd.method = "controller_nvme_namespace_detach"
             /\ f.cmd.nsid = [hi |-> 0, lo |-> Namespaces[f.name].spec.hostNsid]
             /\ f.cmd.subnqn = Subsystems[Namespaces[f.name].spec.subsystemId]
             /\ Namespaces' = Namespaces
       /\ ReturnsAfterCall("Delete") =>
             /\ Len(last'.cmds) = 1
             /\ last'.reply = <<"true">> =>
                   /\ last'.code = "OK"
                   /\ DOMAIN Namespaces' = (DOMAIN Namespaces) \ {last'.name}
                   /\ \A n \in DOMAIN Namespaces' : Namespaces'[n] = Namespaces[n]
             /\ last'.reply = <<"false">> =>
                   /\ last'.code = "InvalidArgument"
                   /\ Namespaces' = Namespaces]_vars

\* A Delete succeeded after its detach, its name left the registry and
\* another entry stays.
C6_Witness ==
    /\ last.op = "Delete" /\ last.reply = <<"true">> /\ last.code = "OK"
    /\ last.name \notin DOMAIN Namespaces
    /\ DOMAIN Namespaces # {}

\* The engine's reply to the last List or Get.
EngineList == last.reply[1].namespaces

\* C7: a List whose engine result extends beyond offset + page size returns
\* a non-empty continuation token (which a later List can pass back to get
\* the entries from offset + page size on).
C7_TruncatedListReturnsToken ==
    (last.op = "List" /\ last.code = "OK" /\ Len(EngineList) > last.offset + last.size)
        => last.token # ""

\* C8: a successful List with page size k >= 1 returns at most k entries, and
\* the host id of every entry is one of the ids the engine reported.
C8_AtMostPageOfEngineIds ==
    (last.op = "List" /\ last.code = "OK" /\ last.req.pageSize >= 1) =>
        /\ Len(last.entries) <= last.req.pageSize
        /\ \A i \in 1..Len(last.entries) :
              \E j \in 1..Len(EngineList) :
                  EngineList[j] = [hi |-> 0, lo |-> last.entries[i]]

\* C9: the entries a List returns are in ascending order of host id.
C9_ListAscending ==
    (last.op = "List" /\ last.code = "OK") =>
        \A i, j \in 1..Len(last.entries) : i < j => last.entries[i] <= last.entries[j]

\* A List returned two or more entries of a window the engine reported in
\* descending order.
C9_Witness ==
    /\ last.op = "List" /\ last.code = "OK" /\ Len(last.entries) >= 2
    /\ Len(EngineList) >= last.offset + 2
    /\ EngineList[last.offset + 1].lo > EngineList[last.offset + 2].lo

\* The engine's list holds an id equal to the int32 v.
Reports(q, v) == \E i \in 1..Len(q) : q[i].hi = 0 /\ q[i].lo = v

\* C10: no step of a Get changes the registry; a Get that does not find its
\* well-formed name in the registry (line 250) fails NotFound at once, and no
\* Get sends an engine command for a name it did not find; a Get whose entry
\* has a host id equal to no id of the engine's list fails InvalidArgument;
\* a Get succeeds only when the engine's list holds an id equal to the host
\* id of the entry it found.
C10_Get ==
    [][/\ \A f \in Suspending : f.op = "Get" =>
             /\ f.name \in DOMAIN Namespaces /\ f.entry = Namespaces[f.name]
             /\ Namespaces' = Namespaces
       /\ Handled("Get") => Namespaces' = Namespaces
       /\ (ReturnsAtOnce("Get") /\ ResourcenameValidate(last'.name)
                                /\ last'.name \notin DOMAIN Namespaces) =>
             last'.code = "NotFound"
       /\ (/\ ReturnsAfterCall("Get")
           /\ ~last'.reply[1].err
           /\ ~Reports(last'.reply[1].namespaces, last'.entry.spec.hostNsid)) =>
             last'.code = "InvalidArgument"
       /\ (Handled("Get") /\ last'.code = "OK") =>
             /\ last'.cmds # <<>>
             /\ Reports(last'.reply[1].namespaces, last'.entry.spec.hostNsid)]_vars

\* A Get failed InvalidArgument although the engine listed an id with the
\* same low 32 bits as the host id of the entry it found.
C10_Witness ==
    /\ last.op = "Get" /\ last.code = "InvalidArgument"
    /\ ~last.entry.nil
    /\ \E i \in 1..Len(EngineList) :
          /\ EngineList[i].hi = 1
          /\ EngineList[i].lo = last.entry.spec.hostNsid

\* C11: the registry starts empty and a name is registered after a step
\* exactly when in that step a Create of the name returns whose attach
\* returned success, or the name was registered before and no Delete of the
\* name whose detach returned success returns in that step.
C11_RegisteredBetweenCreateAndDelete ==
    /\ DOMAIN Namespaces = {}
    /\ [][\A n \in RegistryNames \cup DOMAIN Namespaces \cup DOMAIN Namespaces' :
            (n \in DOMAIN Namespaces') <=>
                IF Handled("Create") /\ last'.name = n /\ last'.reply = <<"true">>
                THEN TRUE
                ELSE IF Handled("Delete") /\ last'.name = n /\ last'.reply = <<"true">>
                THEN FALSE
                ELSE n \in DOMAIN Namespaces]_vars

\* A Create whose attach succeeded registered its name beside another entry.
C11_Witness ==
    /\ last.op = "Create" /\ last.reply = <<"true">>
    /\ last.name \in DOMAIN Namespaces
    /\ Cardinality(DOMAIN Namespaces) = 2

\* The engine answered the request that returns, and the answer is a
\* failure: a failed call, or the result false of an attach or detach.
CallFailed ==
    /\ last'.reply # <<>>
    /\ IF last'.op \in {"Create", "Delete"} THEN last'.reply[1] = "error"
       ELSE last'.reply[1].err

Rejected ==
    /\ last'.reply # <<>>
    /\ last'.op \in {"Create", "Delete"}
    /\ last'.reply[1] = "false"

HandledEngineOp == Completed /\ last'.op \in {"Create", "Delete", "List", "Get"}

\* C12 as stated: a Create, Delete, List or Get whose engine command returned
\* false or whose engine call failed fails with InvalidArgument, having issued
\* that one engine command only.
C12_EngineFailureIsInvalidArgument ==
    [][(HandledEngineOp /\ (CallFailed \/ Rejected)) =>
          /\ last'.code = "InvalidArgument"
          /\ Len(last'.cmds) = 1]_vars

\* C12 amended: the result false of an attach or detach fails the request
\* with InvalidArgument; a failed engine call fails the request with the
\* call's own error, which carries no status code (Unknown); either way the
\* request issued that one engine command only.
C12_RejectedInvalidArgumentFailedCallPassedOn ==
    [][HandledEngineOp =>
          /\ Rejected => (last'.code = "InvalidArgument" /\ Len(last'.cmds) = 1)
          /\ CallFailed => (last'.code = "Unknown" /\ Len(last'.cmds) = 1)]_vars

\* A List with a stored cursor met a failed engine call and failed with the
\* call's error.
C12_Witness ==
    /\ last.op = "List" /\ last.reply # <<>> /\ last.reply[1].err
    /\ last.code = "Unknown" /\ Len(last.cmds) = 1
    /\ last.req.pageToken \in DOMAIN Pagination

\* The request req of handler op does not pass validation: a required field
\* is missing, the resource name or id is malformed, the update mask is
\* malformed, or the page token of a List is not a stored one.
FailsValidation(op, req) ==
    IF op = "Create" THEN CreateValidate(req) # "OK"
    ELSE IF op = "Update" THEN req.name = "" \/ ~ResourcenameValidate(req.name) \/ ~req.maskOk
    ELSE IF op = "List"
         THEN \/ req.parent = ""
              \/ req.pageToken # "" /\ req.pageToken \notin DOMAIN Pagination
    ELSE IF op \in {"Delete", "Get", "Stats"}
         THEN req.name = "" \/ ~ResourcenameValidate(req.name)
    ELSE FALSE

\* C13: a request that fails validation fails at once, leaving the registry
\* and the cursor store as they were, and no handler sends an engine command
\* for a request that fails validation.
C13_ValidationFailureHasNoEffect ==
    [][/\ (Completed /\ FailsValidation(last'.op, last'.req)) =>
             /\ last'.code # "OK"
             /\ last'.cmds = <<>>
             /\ Namespaces' = Namespaces
             /\ Pagination' = Pagination
       /\ \A f \in Suspending : ~FailsValidation(f.op, f.in)]_vars

\* A List with a page token that is not stored failed while its subsystem was
\* in the directory, with a namespace registered and a cursor stored.
C13_Witness ==
    /\ last.op = "List" /\ last.req.pageToken = UnknownToken
    /\ last.req.parent \in DOMAIN Subsystems
    /\ last.code = "NotFound" /\ last.cmds = <<>>
    /\ DOMAIN Namespaces # {} /\ DOMAIN Pagination # {}

\* C14: an Update never succeeds, issues no engine command and leaves the
\* registry and the cursor store as they were; of a well-formed name that is
\* not registered it fails NotFound whatever allow_missing is, and of a
\* registered name with a well-formed mask it fails Unimplemented.
C14_UpdateNeverSucceeds ==
    [][/\ \A f \in Suspending : f.op # "Update"
       /\ Handled("Update") =>
             /\ last'.code # "OK"
             /\ last'.cmds = <<>>
             /\ Namespaces' = Namespaces
             /\ Pagination' = Pagination
             /\ (ResourcenameValidate(last'.name) /\ last'.name \notin DOMAIN Namespaces) =>
                   last'.code = "NotFound"
             /\ (last'.name \in DOMAIN Namespaces /\ last'.req.maskOk) =>
                   last'.code = "Unimplemented"]_vars

\* An Update with allow_missing of an unregistered name failed NotFound while
\* a cursor was stored.
C14_Witness ==
    /\ last.op = "Update" /\ last.req.allowMissing /\ last.code = "NotFound"
    /\ last.name \notin DOMAIN Namespaces
    /\ DOMAIN Pagination # {}

\* The devices of the engine's reply to the Stats request that returns.
StatsDevices == Flatten(last'.reply[1].controllers)

\* A Stats request returns that found its name in the registry (line 299)
\* and got an iostat reply from the engine.
StatsAnswered == ReturnsAfterCall("Stats") /\ ~last'.reply[1].err

\* C15 as stated: Stats of a namespace whose volume id is volumes/v1, the
\* iostat reply holding a device named v1 with read_ios 10 and write_ios 3,
\* returns the counters read 10, write 3.
C15_StatsOfVolumeByShortName ==
    [][(/\ StatsAnswered
        /\ last'.entry.spec.volumeId = "volumes/v1"
        /\ \E i \in 1..Len(StatsDevices) :
              StatsDevices[i] = Bdev("v1", FromInt32(10), FromInt32(3))) =>
          /\ last'.code = "OK"
          /\ last'.stats = [readOpsCount |-> 10, writeOpsCount |-> 3, nil |-> FALSE]]_vars

\* C15 amended: a device is the namespace's when its name equals the volume
\* id.  With no such device Stats fails InvalidArgument; Stats succeeds only
\* with the counters, as 32-bit values, of a device of that name; and of a
\* namespace whose volume id is v1, the first device named v1 having read_ios
\* 10 and write_ios 3, it returns read 10, write 3.
C15_StatsOfDeviceNamedAsVolume ==
    [][/\ \A f \in Suspending : f.op = "Stats" =>
             f.name \in DOMAIN Namespaces /\ f.entry = Namespaces[f.name]
       /\ (Handled("Stats") /\ last'.code = "OK") => StatsAnswered
       /\ StatsAnswered =>
          LET vol == last'.entry.spec.volumeId
              named == { i \in 1..Len(StatsDevices) : StatsDevices[i].bdevName = vol }
          IN  /\ named = {} => last'.code = "InvalidArgument"
              /\ last'.code = "OK" =>
                    \E i \in named :
                        /\ last'.stats.readOpsCount = StatsDevices[i].readIos.lo
                        /\ last'.stats.writeOpsCount = StatsDevices[i].writeIos.lo
              /\ (/\ vol = "v1"
                  /\ \E i \in named :
                        /\ StatsDevices[i] = Bdev("v1", FromInt32(10), FromInt32(3))
                        /\ \A j \in named : i <= j) =>
                    /\ last'.code = "OK"
                    /\ last'.stats = [readOpsCount |-> 10, writeOpsCount |-> 3,
                                      nil |-> FALSE]]_vars

\* Stats of a namespace with volume id v1 returned read 10, write 3 from a
\* reply whose first controller holds another device.
C15_Witness ==
    /\ last.op = "Stats" /\ last.code = "OK"
    /\ last.entry.spec.volumeId = "v1"
    /\ last.stats = [readOpsCount |-> 10, writeOpsCount |-> 3, nil |-> FALSE]
    /\ Len(last.reply[1].controllers) = 2

\* C16: a stored page token stays in the cursor store, mapped to the same
\* offset, across every step of every handler; and the store changes only
\* in the step in which a successful List returns whose engine result
\* extends beyond offset + page size.
C16_CursorsNeverExpire ==
    [][/\ \A t \in DOMAIN Pagination :
             t \in DOMAIN Pagination' /\ Pagination'[t] = Pagination[t]
       /\ Pagination' # Pagination =>
             /\ last'.op = "List" /\ last'.code = "OK"
             /\ Len(last'.reply[1].namespaces) > last'.offset + last'.size]_vars

\* Two cursors are stored and the request that returned last is a Delete
\* that removed the registered namespace.
C16_Witness ==
    /\ Cardinality(DOMAIN Pagination) = 2
    /\ last.op = "Delete" /\ last.code = "OK" /\ last.reply = <<"true">>

\* A step in which a List request returns: its record is last', and the step
\* changes last, the cursor store or the handlers in flight (a repeated List
\* can leave last as it was).
ListStep == last'.op = "List" /\ (Completed \/ Pagination' # Pagination)

\* The offset and the page size the request in last' resolves to.
ResolvedOffset ==
    IF last'.req.pageToken = "" THEN 0 ELSE Pagination[last'.req.pageToken]
ResolvedSize ==
    IF last'.req.pageSize = 0 THEN 50
    ELSE IF last'.req.pageSize > 250 THEN 250
    ELSE last'.req.pageSize

\* C17: a List that resolved offset o and page size n and got from the engine
\* a result of more than o + n entries adds to the cursor store, when it
\* returns, one token that was not in it, mapped to o + n, the other cursors
\* unchanged; every other step of a List (request rejected, subsystem
\* unknown, command sent, engine call failed, result not beyond o + n)
\* leaves the cursor store as it was.
C17_ListStoresOneCursorWhenTruncated ==
    [][IF /\ ListStep
          /\ last'.reply # <<>>
          /\ ~last'.reply[1].err
          /\ Len(last'.reply[1].namespaces) > ResolvedOffset + ResolvedSize
       THEN \E t \in DOMAIN Pagination' :
               /\ t \notin DOMAIN Pagination
               /\ DOMAIN Pagination' = (DOMAIN Pagination) \cup {t}
               /\ Pagination'[t] = ResolvedOffset + ResolvedSize
               /\ \A u \in DOMAIN Pagination : Pagination'[u] = Pagination[u]
       ELSE Pagination' = Pagination]_vars

\* A List continued from a stored cursor at offset 1 with page size 1, the
\* engine reporting three namespaces, and a cursor at offset 2 is stored.
C17_Witness ==
    /\ last.op = "List" /\ last.code = "OK"
    /\ last.req.pageToken \in DOMAIN Pagination
    /\ last.offset = 1 /\ last.size = 1 /\ Len(EngineList) = 3
    /\ \E t \in DOMAIN Pagination : Pagination[t] = 2

\* C18: a Delete that finds its name in the registry but not the entry's
\* subsystem in the directory (lines 126-131) fails at once with an error
\* other than NotFound and leaves the registry as it was; and no Delete sends
\* an engine command for an entry whose subsystem it did not find.
C18_DeleteWithVanishedSubsystem ==
    [][/\ (/\ ReturnsAtOnce("Delete") /\ last'.name \in DOMAIN Namespaces
           /\ Namespaces[last'.name].spec.subsystemId \notin DOMAIN Subsystems) =>
             /\ last'.code \notin {"OK", "NotFound"}
             /\ Namespaces' = Namespaces
       /\ \A f \in Suspending : f.op = "Delete" =>
             f.entry.spec.subsystemId \in DOMAIN Subsystems]_vars

\* A Delete with allow_missing failed on a registered namespace whose
\* subsystem has left the directory.
C18_Witness ==
    /\ last.op = "Delete" /\ last.req.allowMissing /\ last.code = "Unknown"
    /\ last.cmds = <<>>
    /\ last.name \in DOMAIN Namespaces
    /\ Namespaces[last.name].spec.subsystemId \notin DOMAIN Subsystems

\* C19: an entry of the registry is not changed while it is registered: in
\* every step, of any handler and in any interleaving, a name registered
\* before and after the step has the same entry (spec.subsystemId, volume id
\* and host id included).
C19_EntryUnchangedWhileRegistered ==
    [][\A n \in DOMAIN Namespaces :
          n \in DOMAIN Namespaces' => Namespaces'[n] = Namespaces[n]]_vars

\* C20: whenever no handler is in flight, the pair (subsystem nqn, host id)
\* of every registry entry is attached in the engine, the engine's set being
\* changed by this server's attach and detach commands only.
C20_RegisteredMeansAttached ==
    inflight = EmptyBag =>
        \A n \in DOMAIN Namespaces :
            << Subsystems[Namespaces[n].spec.subsystemId],
               FromInt32(Namespaces[n].spec.hostNsid) >> \in attached

====
